---- MODULE Spec2Model ----
(***************************************************************************)
(* Model of the RuStore downloader page (src/script.js): the download-link *)
(* resolution of downloadApp, the density candidates it tries, and the     *)
(* download plan built by renderDownloadLinks.                             *)
(*                                                                         *)
(* JavaScript values are modelled as follows.                              *)
(*   - options.screenDensity is a record [fin, val]: fin says whether      *)
(*     Number.isFinite accepts the value, val is the number when it does.  *)
(*   - window.devicePixelRatio is counted in halves (dpr2 = 2 * dpr): the  *)
(*     thresholds of guessAndroidScreenDensity are 1.5, 2, 3 and 4.        *)
(*   - a raw download entry is [url, size]: url 0 is a missing or empty    *)
(*     url; size is Null when it is not a number and Num(n) when it is n.  *)
(*   - array positions count from 1, and position 0 stands for undefined.  *)
(*                                                                         *)
(* A downloadApp call lives in a slot of dl from its start to its return:  *)
(* the slot holds its locals, with the trials it has issued (calls) and    *)
(* the answers it has received (results).  When it returns the slot is     *)
(* free again and the call is kept, as it returned, in the variable        *)
(* returned, until the next call starts.  The field cancelled of a call in *)
(* flight records that the modal was closed or the search reset since it   *)
(* started; the code keeps no such mark.                                   *)
(*                                                                         *)
(* Spec is the page with its download modal; SpecDensity and SpecPlan      *)
(* apply densityCandidates and buildDownloadPlan to inputs of their own,   *)
(* SpecName applies buildDownloadPlan to entries with a hash, and SpecCopy *)
(* is the copy buttons of the rendered links, with the texts they have put *)
(* on the clipboard.  SpecFair is the page with one call at a time when   *)
(* every request is answered in the end; SpecOverlap is the page with two  *)
(* calls in flight and the order of their starts kept in latest.           *)
(*                                                                         *)
(* SpecSearch is searchApps with the search box, the clear button and the  *)
(* scroll listener of the window.  A call awaits one fetch at a time; the  *)
(* fetch and the reading of its body are one await.  A fetch that was      *)
(* aborted rejects at once, so its continuation runs before any other      *)
(* event is handled.  SpecComments is showComments with the scroll         *)
(* listener of the comments modal and the select of the sort order.        *)
(*                                                                         *)
(* A string the code cuts or filters is the sequence of its characters; a  *)
(* text joined from lines is the sequence of the lines with a newline      *)
(* between two of them.                                                    *)
(***************************************************************************)
EXTENDS Integers, Sequences, FiniteSets, TLC

\* ------------------------------------------------------------------ bounds

MaxDpr2 == 9
MaxOffLadder == 3
MaxUrls == 3
MaxSize == 2
MaxUrlId == 1
MaxInvocations == 1
MaxHashLen == 13
MaxCopies == 2
MaxEntries == 11

\* The searchApps calls in flight at a time.
MaxSearches == 2

\* The showComments calls in flight at a time.
MaxCommentRequests == 2

\* The greatest page of comments asked for.
MaxCommentPages == 2

\* ----------------------------------------------------------- JS helpers

Null == << >>

Num(n) == <<n>>

Max(a, b) == IF a >= b THEN a ELSE b

\* Array.from(new Set(s)): first occurrences, in order.
RECURSIVE Dedup(_)
Dedup(s) ==
    IF s = << >> THEN << >>
    ELSE LET front == Dedup(SubSeq(s, 1, Len(s) - 1))
             last == s[Len(s)]
         IN IF \E k \in 1..Len(front) : front[k] = last
            THEN front
            ELSE Append(front, last)

\* ------------------------------------------------- density candidates

\* Mutant: the density of the bucket is returned without the floor of 240.
guessAndroidScreenDensity_NoFloor(dpr2) ==
    LET dpr == IF dpr2 = 0 THEN 2 ELSE dpr2
    IN IF dpr >= 8 THEN 640
       ELSE IF dpr >= 6 THEN 480
       ELSE IF dpr >= 4 THEN 320
       ELSE IF dpr >= 3 THEN 240
       ELSE 160

guessAndroidScreenDensity(dpr2) ==
    LET dpr == IF dpr2 = 0 THEN 2 ELSE dpr2
        density == IF dpr >= 8 THEN 640
                   ELSE IF dpr >= 6 THEN 480
                   ELSE IF dpr >= 4 THEN 320
                   ELSE IF dpr >= 3 THEN 240
                   ELSE 160
    IN Max(240, density)

\* Mutant: the explicit density is taken with ||, so that 0 counts as none.
requestedDensity_ZeroIsAbsent(options, dpr2) ==
    IF options.fin /\ options.val # 0
    THEN options.val ELSE guessAndroidScreenDensity(dpr2)

requestedDensity(options, dpr2) ==
    IF options.fin THEN options.val ELSE guessAndroidScreenDensity(dpr2)

Ladder == <<480, 320, 240, 160, 0>>

\* Mutant: the candidates are not passed through a Set.
densityCandidates_NoSet(requested) == <<requested>> \o Ladder

densityCandidates(requested) == Dedup(<<requested>> \o Ladder)

withoutSplitsCandidates == <<FALSE, TRUE>>

densityOptions == <<160, 240, 320, 480, 640, 0>>

\* --------------------------------------------------- buildDownloadPlan

\* (size || 0)
sizeOrZero(size) == IF size = Null THEN 0 ELSE size[1]

\* u?.hash ? String(u.hash) : null: an entry without the field hash has
\* no hash, and the empty string counts as none.
hashOrNull(u) == IF "hash" \in DOMAIN u THEN u.hash ELSE Null

\* Mutant: the entries without a url are not filtered out.
RECURSIVE planItems_KeepsAll(_, _)
planItems_KeepsAll(urls, k) ==
    IF k = 0 THEN << >>
    ELSE LET u == urls[k]
         IN Append(planItems_KeepsAll(urls, k - 1),
                   [idx |-> k, url |-> u.url, size |-> u.size,
                    hash |-> hashOrNull(u)])

\* urls.map((u, idx) => ({idx, url, size, hash})).filter(i => !!i.url)
RECURSIVE planItems(_, _)
planItems(urls, k) ==
    IF k = 0 THEN << >>
    ELSE LET u == urls[k]
             rest == planItems(urls, k - 1)
         IN IF u.url # 0
            THEN Append(rest, [idx |-> k, url |-> u.url, size |-> u.size,
                               hash |-> hashOrNull(u)])
            ELSE rest

\* Mutant: a sort that is not stable, an item goes before the items of
\* its size.
RECURSIVE sortedBySize_Unstable(_)
sortedBySize_Unstable(items) ==
    IF items = << >> THEN << >>
    ELSE LET front == sortedBySize_Unstable(SubSeq(items, 1, Len(items) - 1))
             x == items[Len(items)]
             pos == Cardinality({k \in 1..Len(front) :
                        sizeOrZero(front[k].size) > sizeOrZero(x.size)})
         IN SubSeq(front, 1, pos) \o <<x>> \o SubSeq(front, pos + 1, Len(front))

\* [...items].sort((a, b) => (b.size || 0) - (a.size || 0)): the sort is
\* stable, so an item goes behind every item that is at least as large.
RECURSIVE sortedBySize(_)
sortedBySize(items) ==
    IF items = << >> THEN << >>
    ELSE LET front == sortedBySize(SubSeq(items, 1, Len(items) - 1))
             x == items[Len(items)]
             pos == Cardinality({k \in 1..Len(front) :
                        sizeOrZero(front[k].size) >= sizeOrZero(x.size)})
         IN SubSeq(front, 1, pos) \o <<x>> \o SubSeq(front, pos + 1, Len(front))

\* sortedBySize[0]?.idx
baseIdx(items) ==
    IF items = << >> THEN 0 ELSE sortedBySize(items)[1].idx

\* The characters that /[^a-zA-Z0-9]/ does not match.
Alnum ==
    { "a", "b", "c", "d", "e", "f", "g", "h", "i", "j", "k", "l", "m",
      "n", "o", "p", "q", "r", "s", "t", "u", "v", "w", "x", "y", "z",
      "A", "B", "C", "D", "E", "F", "G", "H", "I", "J", "K", "L", "M",
      "N", "O", "P", "Q", "R", "S", "T", "U", "V", "W", "X", "Y", "Z",
      "0", "1", "2", "3", "4", "5", "6", "7", "8", "9" }

isAlnum(ch) == ch \in Alnum

\* slice(0, n)
slice(str, n) == SubSeq(str, 1, IF Len(str) < n THEN Len(str) ELSE n)

\* Mutant: the hash is cut to 12 characters before the other characters
\* are removed.
safeHash_SliceFirst(hash) == SelectSeq(slice(hash, 12), isAlnum)

\* (i.hash || '').replace(/[^a-zA-Z0-9]/g, '').slice(0, 12): a string is
\* the sequence of its characters.
safeHash(hash) == slice(SelectSeq(hash, isAlnum), 12)

\* Mutant: the hash is appended without its underscore.
hashSuffix_NoUnderscore(hash) == safeHash(hash)

\* `${safeHash ? '_' + safeHash : ''}`
hashSuffix(hash) ==
    IF safeHash(hash) # << >> THEN <<"_">> \o safeHash(hash) ELSE << >>

\* Mutant: the counter also counts the base item.
RECURSIVE mapItems_CountsBase(_, _, _)
mapItems_CountsBase(items, base, configCounter) ==
    IF items = << >> THEN << >>
    ELSE LET i == Head(items)
         IN IF i.idx = base
            THEN <<[idx |-> i.idx, url |-> i.url, size |-> i.size, hash |-> i.hash,
                    role |-> "base",
                    filename |-> <<"base">> \o hashSuffix(i.hash)]>>
                 \o mapItems_CountsBase(Tail(items), base, configCounter + 1)
            ELSE <<[idx |-> i.idx, url |-> i.url, size |-> i.size, hash |-> i.hash,
                    role |-> "config",
                    filename |-> <<"config", configCounter>> \o hashSuffix(i.hash)]>>
                 \o mapItems_CountsBase(Tail(items), base, configCounter + 1)

\* items.map(i => ...) with the running configCounter.  Of the file name
\* rustore_<appId>_<versionCode>_base[_<hash>].apk the part that differs
\* from item to item is kept: <<"base">> or <<"config", n>>, and behind
\* it the characters of the hash segment with its underscore.
RECURSIVE mapItems(_, _, _)
mapItems(items, base, configCounter) ==
    IF items = << >> THEN << >>
    ELSE LET i == Head(items)
         IN IF i.idx = base
            THEN <<[idx |-> i.idx, url |-> i.url, size |-> i.size, hash |-> i.hash,
                    role |-> "base",
                    filename |-> <<"base">> \o hashSuffix(i.hash)]>>
                 \o mapItems(Tail(items), base, configCounter)
            ELSE <<[idx |-> i.idx, url |-> i.url, size |-> i.size, hash |-> i.hash,
                    role |-> "config",
                    filename |-> <<"config", configCounter>> \o hashSuffix(i.hash)]>>
                 \o mapItems(Tail(items), base, configCounter + 1)

\* The decimal digits of a number, as `${n}` writes them.
RECURSIVE decimal(_)
decimal(n) ==
    LET digit == <<"0", "1", "2", "3", "4", "5", "6", "7", "8", "9">>[(n % 10) + 1]
    IN IF n < 10 THEN <<digit>> ELSE decimal(n \div 10) \o <<digit>>

\* The file name of an item as the string the template literal gives,
\* character by character behind "rustore_<appId>_<versionCode>_", which
\* all items of a plan share.
filenameText(item) ==
    <<"rustore_<appId>_<versionCode>_">>
    \o (IF item.role = "base"
        THEN <<"b", "a", "s", "e">>
             \o SubSeq(item.filename, 2, Len(item.filename))
        ELSE <<"c", "o", "n", "f", "i", "g">> \o decimal(item.filename[2])
             \o SubSeq(item.filename, 3, Len(item.filename)))
    \o <<".", "a", "p", "k">>

buildDownloadPlan(urls) ==
    LET items == planItems(urls, Len(urls))
    IN mapItems(items, baseIdx(items), 1)

\* urls.map(u => u.url).filter(Boolean)
allLinks(urls) ==
    LET items == planItems(urls, Len(urls))
    IN [k \in 1..Len(items) |-> items[k].url]

\* ------------------------------------------------------------- state

VARIABLES
    dl,               \* the downloadApp calls in flight: the locals of each
    returned,         \* the call that returned last, as it returned
    net,              \* download-link requests sent and not yet answered
    downloadModal,    \* "show" or "hidden": the classes of #downloadModal
    downloadResults,  \* the content of #downloadResults
    state,            \* the state object: controller, page, isLoading, ...
    fnIn,             \* the argument of a function applied on its own
    fnOut,            \* its result
    fnDone,           \* whether it has been applied
    latest,           \* history: the slot of the call started last
    searches,         \* the searchApps calls in flight: the locals of each
    searchResults,    \* the content of #searchResults
    pagesTaken,       \* history: the pages of results taken since the last reset
    commentsModal,    \* #commentsModal: its class, its dataset, the filter
    commentRequests   \* the showComments calls in flight, as they were made

vars ==
    <<dl, returned, net, downloadModal, downloadResults, state, fnIn, fnOut, fnDone,
      latest, searches, searchResults, pagesTaken, commentsModal, commentRequests>>

searchVars == <<searches, searchResults, pagesTaken>>

commentVars == <<commentsModal, commentRequests>>

pageVars ==
    <<dl, returned, net, downloadModal, downloadResults, state, latest, searchVars,
      commentVars>>

fnVars == <<fnIn, fnOut, fnDone>>

\* What the download modal leaves alone.
elsewhere == <<fnVars, searchVars, commentVars>>

\* The slots for downloadApp calls: the calls that can be in flight at a
\* time.
Invocations == DOMAIN dl

\* A profile of one trial.
Profile(density, withoutSplits) ==
    [screenDensity |-> density, withoutSplits |-> withoutSplits]

NoProfile == Profile(0, FALSE)

\* A raw entry of body.downloadUrls.
Entry(url, size) == [url |-> url, size |-> size]

\* The download-link lists the service answers with.
SampleUrls ==
    { << >>,
      <<Entry(1, Num(2))>>,
      <<Entry(1, Num(1)), Entry(2, Num(2))>>,
      <<Entry(0, Null)>> }

\* What the service can answer to one request: the fetch rejects, the
\* status is not 2xx, the code is not "OK", or the code is "OK"; message
\* "" is a body without a message.
Responses ==
    { [transport |-> "reject", code |-> "", message |-> "", urls |-> << >>] }
    \cup { [transport |-> "non2xx", code |-> "", message |-> m, urls |-> << >>] :
             m \in {"", "m"} }
    \cup { [transport |-> "2xx", code |-> "ERROR", message |-> m, urls |-> << >>] :
             m \in {"", "m"} }
    \cup { [transport |-> "2xx", code |-> "OK", message |-> "", urls |-> u] :
             u \in SampleUrls }

\* The data of a response, with the profile of the request it answers.
Data(resp, profile) == [resp |-> resp, answers |-> profile]

NoData == Data([transport |-> "", code |-> "", message |-> "", urls |-> << >>], NoProfile)

Idle ==
    [status |-> "idle", requested |-> 0, candidates |-> << >>, di |-> 0, wi |-> 0,
     calls |-> << >>, results |-> << >>, lastData |-> NoData, lastMeta |-> NoProfile,
     cancelled |-> FALSE]

\* A call and the slot it ran in.
Call(i, rec) == [inv |-> i, frame |-> rec]

NoCall == Call(0, Idle)

\* The content of #downloadResults: kind "" is the empty element.
Content(kind, by, meta, data, plan, message) ==
    [kind |-> kind, by |-> by, meta |-> meta, data |-> data, plan |-> plan,
     message |-> message]

Empty == Content("", 0, NoProfile, NoData, << >>, << >>)

NoController == 0

\* The slots for searchApps calls: the calls that can be in flight at a
\* time.
Searches == DOMAIN searches

\* The locals of a searchApps call and the fetch it awaits: "search" is
\* the request of a page, "detail" the request of the details of one app
\* of the page, of which left are still to come. superseded is history:
\* state.reset() has run since the call started.
Search(status, query, isLoadMore, signal) ==
    [status |-> status, query |-> query, isLoadMore |-> isLoadMore,
     signal |-> signal, aborted |-> FALSE, page |-> 0, left |-> 0,
     totalPages |-> 0, superseded |-> FALSE]

NoSearch == Search("idle", "", FALSE, 0)

\* The content of #searchResults: the message shown, if any, and the
\* app cards, each with the query of the call that appended it.
Results(kind, cards) == [kind |-> kind, cards |-> cards]

NoResults == Results("", << >>)

\* #commentsModal: the class that shows or hides it, the entries of its
\* dataset, "" for one that is not set, and whether the select of the
\* sort order is visible.
NoComments ==
    [class |-> "hidden", packageName |-> "", pageCount |-> 0,
     allCommentsLoaded |-> "", canLoad |-> "", filter |-> FALSE]

\* The history of the starts: the slot of the downloadApp call started
\* last, 0 before the first call. The program keeps no such record; a
\* specification that needs the order of the starts keeps it.
Order(kept, slot) == [kept |-> kept, slot |-> slot]

InitState ==
    [controller |-> NoController, page |-> 0, isLoading |-> FALSE,
     hasMorePages |-> TRUE, query |-> ""]

\* The page after load, with room for n calls in flight at a time.
InitCalls(n, kept) ==
    /\ dl = [i \in 1..n |-> Idle]
    /\ returned = NoCall
    /\ net = {}
    /\ downloadModal = "hidden"
    /\ downloadResults = Empty
    /\ state = InitState
    /\ latest = Order(kept, 0)
    /\ commentsModal = NoComments
    /\ commentRequests = << >>

\* The search after load, with room for n searchApps calls in flight at
\* a time.
InitSearches(n) ==
    /\ searches = [i \in 1..n |-> NoSearch]
    /\ searchResults = NoResults
    /\ pagesTaken = << >>

InitPage == InitCalls(MaxInvocations, FALSE) /\ InitSearches(0)

InitFn ==
    /\ fnIn = << >>
    /\ fnOut = << >>
    /\ fnDone = FALSE

\* ------------------------------------------------------- downloadApp

\* ModalManager.show('downloadModal', 'downloadResults', placeholder)
placeholder(i) == Content("placeholder", i, NoProfile, NoData, << >>, << >>)

\* requestDownloadLink(withoutSplits, screenDensity): the fetch is given
\* no signal.
NoSignal == 0

requestDownloadLink(i, profile) ==
    [inv |-> i, profile |-> profile, signal |-> NoSignal, aborted |-> FALSE]

\* Mutant: the request answered stays in flight beside the next one.
awaited_StillInFlight(r, next) == net \cup next

\* The next request goes out when the one awaited has been answered.
awaited(r, next) == (net \ {r}) \cup next

\* What a request can be answered with: an aborted fetch rejects.
answers(r) ==
    {resp \in Responses : r.aborted => resp.transport = "reject"}

\* The profile of the trial the loops stand at.
profileAt(rec) ==
    Profile(rec.candidates[rec.di], withoutSplitsCandidates[rec.wi])

\* Mutant: only the loop over the densities is asked for another
\* iteration.
hasNextTrial_OuterOnly(rec) == rec.di < Len(rec.candidates)

\* Whether the nested loops have another iteration.
hasNextTrial(rec) ==
    rec.wi < Len(withoutSplitsCandidates) \/ rec.di < Len(rec.candidates)

\* Mutant: the loops are nested the other way round, the densities inside.
nextTrial_DensityInside(rec) ==
    IF rec.di < Len(rec.candidates)
    THEN [rec EXCEPT !.di = @ + 1]
    ELSE [rec EXCEPT !.di = 1, !.wi = @ + 1]

\* The loops advanced by one iteration: the inner loop first.
nextTrial(rec) ==
    IF rec.wi < Len(withoutSplitsCandidates)
    THEN [rec EXCEPT !.wi = @ + 1]
    ELSE [rec EXCEPT !.di = @ + 1, !.wi = 1]

\* Mutant: the density requested is put behind the fallback list.
startOf_LadderFirst(requested) ==
    LET rec == [Idle EXCEPT !.status = "waiting",
                            !.requested = requested,
                            !.candidates = Dedup(Ladder \o <<requested>>),
                            !.di = 1, !.wi = 1,
                            !.lastMeta = Profile(requested, FALSE)]
    IN [rec EXCEPT !.calls = <<profileAt(rec)>>]

\* The locals of a call up to its first await.
startOf(requested) ==
    LET rec == [Idle EXCEPT !.status = "waiting",
                            !.requested = requested,
                            !.candidates = densityCandidates(requested),
                            !.di = 1, !.wi = 1,
                            !.lastMeta = Profile(requested, FALSE)]
    IN [rec EXCEPT !.calls = <<profileAt(rec)>>]

\* A call takes the first slot that holds no call in flight.
freeSlot(i) ==
    /\ dl[i].status # "waiting"
    /\ \A j \in Invocations : j < i => dl[j].status = "waiting"

\* The call runs up to its first await; the placeholder replaces what the
\* last call to return has rendered.
downloadApp(i, requested) ==
    /\ freeSlot(i)
    /\ downloadModal' = "show"
    /\ downloadResults' = placeholder(i)
    /\ dl' = [dl EXCEPT ![i] = startOf(requested)]
    /\ returned' = NoCall
    /\ net' = net \cup {requestDownloadLink(i, profileAt(startOf(requested)))}
    /\ latest' = IF latest.kept THEN Order(TRUE, i) ELSE latest
    /\ UNCHANGED <<state, elsewhere>>

NoOptions == [fin |-> FALSE, val |-> 0]

\* The Download button of an app card: downloadApp(appId, minSdkVersion).
DownloadClick ==
    \E i \in Invocations :
        \E requested \in {requestedDensity(NoOptions, dpr2) : dpr2 \in 0..MaxDpr2} :
            downloadApp(i, requested)

\* retryBtn.onclick: the button is there once renderDownloadLinks has
\* rendered, and the density is the value of the select.
RetryClick ==
    /\ downloadModal = "show"
    /\ downloadResults.kind = "links"
    /\ \E i \in Invocations :
          \E requested \in
                {requestedDensity([fin |-> TRUE, val |-> densityOptions[k]], dpr2) :
                    k \in 1..Len(densityOptions), dpr2 \in 0..MaxDpr2} :
              downloadApp(i, requested)

\* Mutant: the code of the response is not looked at.
throws_TransportOnly(resp) ==
    resp.transport = "reject" \/ resp.transport = "non2xx"

\* Whether the call throws on this response: the fetch rejected, the
\* status is not ok, or the code is not 'OK'.
throws(resp) ==
    \/ resp.transport = "reject"
    \/ resp.transport = "non2xx"
    \/ resp.code # "OK"

\* Mutant: the message of the body is not read.
errorMessage_NoBody(resp) ==
    IF resp.transport = "reject" THEN <<"fetch">>
    ELSE IF resp.transport = "non2xx" THEN <<"HTTP", "Unknown error">>
    ELSE <<"Server returned error">>

\* The message of the error thrown: "HTTP <status>: " and the message of
\* the body or 'Unknown error' for a status that is not ok, the message of
\* the body or 'Server returned error' for a code that is not 'OK', and
\* the message of the TypeError when the fetch rejects.
errorMessage(resp) ==
    IF resp.transport = "reject" THEN <<"fetch">>
    ELSE IF resp.transport = "non2xx"
    THEN <<"HTTP", IF resp.message # "" THEN resp.message ELSE "Unknown error">>
    ELSE <<IF resp.message # "" THEN resp.message ELSE "Server returned error">>

\* Mutant: a single download link does not count.
hasUrls_MoreThanOne(resp) == Len(resp.urls) > 1

\* Array.isArray(urls) && urls.length > 0
hasUrls(resp) == Len(resp.urls) > 0

\* ModalManager.showError('downloadResults', title, message)
showError(i, message) == Content("error", i, NoProfile, NoData, << >>, message)

\* renderDownloadLinks(data, lastMeta)
renderDownloadLinks(i, data, meta) ==
    Content("links", i, meta, data, buildDownloadPlan(data.resp.urls), << >>)

\* Mutant: after the loops nothing is written and the placeholder stays.
renderExhausted_Nothing(i, lastData) == downloadResults

\* The "No download URLs returned" block, with lastData as its debug JSON.
renderExhausted(i, lastData) ==
    Content("exhausted", i, NoProfile, lastData, << >>, << >>)

\* Mutant: lastData is not assigned.
remember_MetaOnly(rec, data) == [rec EXCEPT !.lastMeta = profileAt(rec)]

\* lastData = data; lastMeta = {screenDensity: density, withoutSplitsUsed}
remember(rec, data) ==
    [rec EXCEPT !.lastData = data, !.lastMeta = profileAt(rec)]

\* The answer to the request in flight is received.
received(rec, data) == [rec EXCEPT !.results = Append(@, data)]

\* The call returns: its slot is free again.
ended(i, rec, status) ==
    /\ returned' = Call(i, [rec EXCEPT !.status = status, !.cancelled = FALSE])
    /\ dl' = [dl EXCEPT ![i] = Idle]

\* The response makes the call throw: the catch block shows the error.
RespondError(i) ==
    \E r \in net : \E resp \in answers(r) :
        /\ r.inv = i
        /\ throws(resp)
        /\ ended(i, received(dl[i], Data(resp, r.profile)), "failure")
        /\ net' = awaited(r, {})
        /\ downloadResults' = showError(i, errorMessage(resp))
        /\ UNCHANGED <<downloadModal, state, latest, elsewhere>>

\* The response holds download links: they are rendered and the call
\* returns.
RespondUrls(i) ==
    \E r \in net : \E resp \in answers(r) :
        /\ r.inv = i
        /\ ~throws(resp)
        /\ hasUrls(resp)
        /\ LET data == Data(resp, r.profile)
               rec == remember(received(dl[i], data), data)
           IN /\ ended(i, rec, "success")
              /\ downloadResults' = renderDownloadLinks(i, data, rec.lastMeta)
        /\ net' = awaited(r, {})
        /\ UNCHANGED <<downloadModal, state, latest, elsewhere>>

\* The response holds no links and the loops go on: the next request is
\* sent.
RespondEmptyNext(i) ==
    \E r \in net : \E resp \in answers(r) :
        /\ r.inv = i
        /\ ~throws(resp)
        /\ ~hasUrls(resp)
        /\ hasNextTrial(dl[i])
        /\ LET data == Data(resp, r.profile)
               rec == nextTrial(remember(received(dl[i], data), data))
           IN /\ dl' = [dl EXCEPT ![i] =
                          [rec EXCEPT !.calls = Append(@, profileAt(rec))]]
              /\ net' = awaited(r, {requestDownloadLink(i, profileAt(rec))})
        /\ UNCHANGED <<returned, downloadModal, downloadResults, state, latest, elsewhere>>

\* The response holds no links and it was the last trial: the loops end.
RespondEmptyLast(i) ==
    \E r \in net : \E resp \in answers(r) :
        /\ r.inv = i
        /\ ~throws(resp)
        /\ ~hasUrls(resp)
        /\ ~hasNextTrial(dl[i])
        /\ LET data == Data(resp, r.profile)
               rec == remember(received(dl[i], data), data)
           IN /\ ended(i, rec, "exhausted")
              /\ downloadResults' = renderExhausted(i, rec.lastData)
        /\ net' = awaited(r, {})
        /\ UNCHANGED <<downloadModal, state, latest, elsewhere>>

\* The calls in flight when the user closes the modal or resets the
\* search are from then on cancelled ones.
cancelInFlight ==
    [i \in Invocations |->
        IF dl[i].status = "waiting" THEN [dl[i] EXCEPT !.cancelled = TRUE] ELSE dl[i]]

\* ModalManager.hide('downloadModal', 'downloadResults'): the close
\* button and the click on the backdrop.
ModalHide ==
    /\ downloadModal = "show"
    /\ downloadModal' = "hidden"
    /\ downloadResults' = Empty
    /\ dl' = cancelInFlight
    /\ UNCHANGED <<returned, net, state, latest, elsewhere>>

\* controller.abort(): the fetches given its signal reject.
abort(controller) ==
    {IF r.signal # NoSignal /\ r.signal = controller
     THEN [r EXCEPT !.aborted = TRUE] ELSE r : r \in net}

\* What controller.abort() and state.reset() do to the searchApps calls
\* in flight: the fetch given the signal rejects, and the call is from
\* then on one that a reset has overtaken.
resetSearches ==
    [i \in Searches |->
        IF searches[i].status = "idle" THEN searches[i]
        ELSE [searches[i] EXCEPT
                !.aborted = @ \/ (state.controller # NoController
                                  /\ searches[i].signal = state.controller),
                !.superseded = TRUE]]

\* The signals that fetches in flight hold.
signalsHeld ==
    {r.signal : r \in net}
    \cup {searches[i].signal : i \in {j \in Searches : searches[j].status # "idle"}}

\* new AbortController(): a controller no fetch in flight holds the signal
\* of; controllers that nothing refers to any more give their names back.
newAbortController(signals) ==
    CHOOSE c \in 1..(Cardinality(signals) + 1) :
        /\ c \notin signals
        /\ \A d \in 1..(c - 1) : d \in signals

\* state.reset()
reset ==
    [state EXCEPT !.controller = newAbortController(signalsHeld),
                  !.page = 0, !.hasMorePages = TRUE]

\* An aborted fetch rejects at once, and the continuation that awaits it
\* is a microtask: it runs when the handler that aborted has returned,
\* before any other event is handled. This is the test that no such
\* continuation is waiting.
noRejectionPending ==
    \A i \in Searches : searches[i].status # "idle" => ~searches[i].aborted

\* The click on the clear button of the search box: the search box and
\* #searchResults are emptied and the state is reset.
ClearSearch ==
    /\ noRejectionPending
    /\ net' = abort(state.controller)
    /\ state' = [reset EXCEPT !.query = "", !.isLoading = FALSE]
    /\ dl' = cancelInFlight
    /\ searches' = resetSearches
    /\ searchResults' = NoResults
    /\ pagesTaken' = << >>
    /\ UNCHANGED <<returned, downloadModal, downloadResults, latest, fnVars, commentVars>>

Next ==
    \/ DownloadClick
    \/ RetryClick
    \/ \E i \in Invocations : RespondError(i)
    \/ \E i \in Invocations : RespondUrls(i)
    \/ \E i \in Invocations : RespondEmptyNext(i)
    \/ \E i \in Invocations : RespondEmptyLast(i)
    \/ ModalHide
    \/ ClearSearch

Init == InitPage /\ InitFn

Spec == Init /\ [][Next]_vars

\* The continuation of call i behind its await: it runs once the fetch
\* has settled.
Answer(i) ==
    \/ RespondError(i)
    \/ RespondUrls(i)
    \/ RespondEmptyNext(i)
    \/ RespondEmptyLast(i)

AnswerAny == \E i \in Invocations : Answer(i)

\* One resolution at a time, as the user starts them.
InitFair == InitCalls(1, FALSE) /\ InitSearches(0) /\ InitFn

\* The page when every request is answered in the end: a fetch settles,
\* and the event loop then runs the continuation that awaits it.
SpecFair == InitFair /\ [][Next]_vars /\ WF_vars(AnswerAny)

\* One more call than the page alone has room for can overlap, and the
\* order they were started in is kept.
InitOverlap ==
    InitCalls(MaxInvocations + 1, TRUE) /\ InitSearches(0) /\ InitFn

\* The user opens downloads and closes the modal while the service
\* answers in any order.
NextOverlap ==
    \/ DownloadClick
    \/ AnswerAny
    \/ ModalHide

SpecOverlap == InitOverlap /\ [][NextOverlap]_vars

\* --------------------------------------------------------- searchApps

\* The values of the search box when its timer fires; "" is a value that
\* trims to nothing.
Queries == {"", "a", "b"}

\* A call takes the first slot that holds no call in flight.
freeSearch(i) ==
    /\ searches[i].status = "idle"
    /\ \A j \in Searches : j < i => searches[j].status # "idle"

\* searchApps(query, isLoadMore) up to its first await: the reset of a
\* new search, the guard, and the request of page state.page.
searchApps(i, query, isLoadMore) ==
    LET st == IF isLoadMore THEN state
              ELSE [reset EXCEPT !.query = query, !.isLoading = FALSE]
        calls == IF isLoadMore THEN searches ELSE resetSearches
        taken == IF isLoadMore THEN pagesTaken ELSE << >>
    IN /\ IF query = "" \/ st.isLoading \/ ~st.hasMorePages
          THEN /\ state' = st
               /\ searches' = calls
               /\ UNCHANGED searchResults
          ELSE /\ freeSearch(i)
               /\ state' = [st EXCEPT !.isLoading = TRUE]
               /\ searches' =
                     [calls EXCEPT ![i] =
                        [Search("search", query, isLoadMore, st.controller)
                            EXCEPT !.page = st.page]]
               /\ searchResults' =
                     IF isLoadMore THEN searchResults ELSE Results("searching", << >>)
       /\ pagesTaken' = taken
       /\ net' = IF isLoadMore THEN net ELSE abort(state.controller)
       /\ UNCHANGED <<dl, returned, downloadModal, downloadResults, latest, fnVars, commentVars>>

\* The timer of the search box fires: searchApps(e.target.value).
SearchInput ==
    /\ noRejectionPending
    /\ \E query \in Queries : \E i \in Searches : searchApps(i, query, FALSE)

\* The scroll listener of the window near the end of the page.
Scroll ==
    /\ noRejectionPending
    /\ ~state.isLoading
    /\ state.hasMorePages
    /\ \E i \in Searches : searchApps(i, state.query, TRUE)

\* finally: if (query === state.query) state.isLoading = false
finally(call, st) ==
    IF call.query = st.query THEN [st EXCEPT !.isLoading = FALSE] ELSE st

\* Mutant: the name of the error is not looked at.
isAbortError_Never(call) == FALSE

\* error.name === 'AbortError': the fetch was aborted.
isAbortError(call) == call.aborted

\* The fetch of the page rejects, by a failure of the network or by an
\* abort: the catch block and the finally block run.
SearchRejects(i) ==
    LET call == searches[i]
    IN /\ call.status = "search"
       /\ call.aborted \/ noRejectionPending
       /\ searchResults' =
             IF ~isAbortError(call) /\ ~call.isLoadMore /\ call.query = state.query
             THEN Results("error", << >>) ELSE searchResults
       /\ state' = finally(call, state)
       /\ searches' = [searches EXCEPT ![i] = NoSearch]
       /\ UNCHANGED <<dl, returned, net, downloadModal, downloadResults, latest,
                      pagesTaken, fnVars, commentVars>>

\* What the service answers to the request of a page: a code, and under
\* 'OK' the apps of the page and the number of pages: no app on no page,
\* or one or two apps on the only page or on the first of two.
Pages ==
    { [code |-> "ERROR", length |-> 0, totalPages |-> 0],
      [code |-> "OK", length |-> 0, totalPages |-> 0] }
    \cup { [code |-> "OK", length |-> n, totalPages |-> t] :
             n \in {1, 2}, t \in {1, 2} }

\* Mutant: the details are fetched without a signal.
detailSignal_None(st) == NoSignal

\* The signal given to fetchAppDetails: that of the controller of the
\* state when the call is made.
detailSignal(st) == st.controller

\* The page is answered: beyond the test of the query and of the code,
\* an empty page ends the paging, and the details of the first app of a
\* page that is not empty are asked for.
SearchAnswers(i) ==
    LET call == searches[i]
    IN /\ call.status = "search"
       /\ ~call.aborted
       /\ noRejectionPending
       /\ \E data \in Pages :
            IF call.query # state.query \/ data.code # "OK"
            THEN /\ state' = finally(call, state)
                 /\ searches' = [searches EXCEPT ![i] = NoSearch]
                 /\ UNCHANGED <<searchResults, pagesTaken>>
            ELSE /\ pagesTaken' = Append(pagesTaken, call.page)
                 /\ IF data.length = 0
                    THEN /\ searchResults' =
                               IF call.isLoadMore THEN searchResults
                               ELSE Results("none", << >>)
                         /\ state' = finally(call, [state EXCEPT !.hasMorePages = FALSE])
                         /\ searches' = [searches EXCEPT ![i] = NoSearch]
                    ELSE /\ searchResults' =
                               IF call.isLoadMore THEN searchResults ELSE NoResults
                         /\ searches' =
                               [searches EXCEPT ![i] =
                                  [call EXCEPT !.status = "detail",
                                               !.left = data.length,
                                               !.totalPages = data.totalPages,
                                               !.signal = detailSignal(state)]]
                         /\ UNCHANGED state
       /\ UNCHANGED <<dl, returned, net, downloadModal, downloadResults, latest, fnVars, commentVars>>

\* fetchAppDetails returns: the details, or null when the fetch rejected
\* or the code is not 'OK'. A card is appended for details; the loop goes
\* on with the next app after the test of the query, and behind the last
\* app the page is counted.
DetailSettles(i) ==
    LET call == searches[i]
    IN /\ call.status = "detail"
       /\ call.aborted \/ noRejectionPending
       /\ \E appDetails \in (IF call.aborted THEN {FALSE} ELSE BOOLEAN) :
            searchResults' =
                IF appDetails
                THEN [searchResults EXCEPT !.cards = Append(@, call.query)]
                ELSE searchResults
       /\ IF call.left > 1
          THEN /\ searches' =
                     [searches EXCEPT ![i] =
                        IF call.query # state.query THEN NoSearch
                        ELSE [call EXCEPT !.left = @ - 1,
                                          !.signal = detailSignal(state),
                                          !.aborted = FALSE]]
               /\ UNCHANGED state
          ELSE /\ state' =
                     finally(call,
                             [state EXCEPT
                                !.hasMorePages = state.page < call.totalPages - 1,
                                !.page = @ + 1])
               /\ searches' = [searches EXCEPT ![i] = NoSearch]
       /\ UNCHANGED <<dl, returned, net, downloadModal, downloadResults, latest,
                      pagesTaken, fnVars, commentVars>>

NextSearch ==
    \/ SearchInput
    \/ Scroll
    \/ ClearSearch
    \/ \E i \in Searches : SearchRejects(i)
    \/ \E i \in Searches : SearchAnswers(i)
    \/ \E i \in Searches : DetailSettles(i)

InitSearch ==
    InitCalls(MaxInvocations, FALSE) /\ InitSearches(MaxSearches) /\ InitFn

SpecSearch == InitSearch /\ [][NextSearch]_vars

\* -------------------------------------------------------- showComments

\* A showComments call that awaits its fetch; byScroll is history: the
\* scroll listener made the call.
CommentRequest(packageName, pageNumber, firstOpen, byScroll) ==
    [packageName |-> packageName, pageNumber |-> pageNumber,
     firstOpen |-> firstOpen, byScroll |-> byScroll]

\* showComments(packageName, pageNumber, firstOpen) up to its await, on
\* the modal as the caller has left it; what is written into
\* #appCommentsBody is not part of the state.
showComments(modal, request) ==
    /\ Len(commentRequests) < MaxCommentRequests
    /\ commentsModal' =
          IF request.firstOpen
          THEN [modal EXCEPT !.class = "show", !.filter = FALSE]
          ELSE modal
    /\ commentRequests' = Append(commentRequests, request)
    /\ UNCHANGED <<dl, returned, net, downloadModal, downloadResults, state, latest,
                   searchVars, fnVars>>

\* The "Show comments" button of an app card.
CommentsClick ==
    \E packageName \in {"p", "q"} :
        showComments(commentsModal, CommentRequest(packageName, 0, TRUE, FALSE))

\* What the scroll listener writes before its call.
taken(modal) == [modal EXCEPT !.canLoad = "false", !.pageCount = @ + 1]

\* The scroll listener of the modal, scrolled beyond six tenths.
CommentsScroll ==
    /\ commentsModal.class = "show"
    /\ commentsModal.packageName # ""
    /\ commentsModal.allCommentsLoaded = "false"
    /\ commentsModal.canLoad = "true"
    /\ commentsModal.pageCount < MaxCommentPages
    /\ showComments(taken(commentsModal),
                    CommentRequest(commentsModal.packageName,
                                   commentsModal.pageCount + 1, FALSE, TRUE))

\* commentsFilterOption.onchange
FilterChange ==
    /\ commentsModal.class = "show"
    /\ commentsModal.filter
    /\ showComments([commentsModal EXCEPT !.pageCount = 0],
                    CommentRequest(commentsModal.packageName, 0, FALSE, FALSE))

\* The close button of the modal and the click on its backdrop.
CommentsHide ==
    /\ commentsModal.class = "show"
    /\ commentsModal' = [commentsModal EXCEPT !.class = "hidden"]
    /\ UNCHANGED <<dl, returned, net, downloadModal, downloadResults, state, latest,
                   searchVars, fnVars, commentRequests>>

\* The requests in flight without the k-th.
answered(k) ==
    SubSeq(commentRequests, 1, k - 1)
    \o SubSeq(commentRequests, k + 1, Len(commentRequests))

\* The numbers of comments of a page: none, fewer than the page size of
\* 20, and a full page.
CommentCounts == {0, 19, 20}

\* The data are there and the code is 'OK': the dataset is written.
CommentsAnswered(k) ==
    \E length \in CommentCounts :
        LET request == commentRequests[k]
            written ==
                [commentsModal EXCEPT
                    !.pageCount = request.pageNumber,
                    !.allCommentsLoaded = IF length < 20 THEN "true" ELSE "false",
                    !.canLoad = "true"]
        IN /\ commentsModal' =
                 IF request.firstOpen
                 THEN [written EXCEPT !.packageName = request.packageName,
                                      !.filter = @ \/ length > 0]
                 ELSE written
           /\ commentRequests' = answered(k)
           /\ UNCHANGED <<dl, returned, net, downloadModal, downloadResults, state,
                          latest, searchVars, fnVars>>

\* The code is not 'OK', or the fetch rejects and the catch block shows
\* the error: the dataset stays as it is.
CommentsRefused(k) ==
    /\ commentRequests' = answered(k)
    /\ UNCHANGED <<dl, returned, net, downloadModal, downloadResults, state, latest,
                   searchVars, fnVars, commentsModal>>

NextComments ==
    \/ CommentsClick
    \/ CommentsScroll
    \/ FilterChange
    \/ CommentsHide
    \/ \E k \in DOMAIN commentRequests : CommentsAnswered(k)
    \/ \E k \in DOMAIN commentRequests : CommentsRefused(k)

SpecComments == Init /\ [][NextComments]_vars

\* ------------------------------------ the density candidates on their own

\* The values of options.screenDensity: none or not a finite number, a
\* density of the select, or another finite number.
DensityInputs ==
    {NoOptions}
    \cup {[fin |-> TRUE, val |-> densityOptions[k]] : k \in 1..Len(densityOptions)}
    \cup {[fin |-> TRUE, val |-> v] : v \in (0 - MaxOffLadder)..MaxOffLadder}

InitDensity ==
    /\ InitPage
    /\ fnIn \in [options : DensityInputs, dpr2 : 0..MaxDpr2]
    /\ fnOut = << >>
    /\ fnDone = FALSE

ApplyDensity ==
    /\ ~fnDone
    /\ fnOut' = densityCandidates(requestedDensity(fnIn.options, fnIn.dpr2))
    /\ fnDone' = TRUE
    /\ UNCHANGED <<fnIn, pageVars>>

NextDensity == ApplyDensity

SpecDensity == InitDensity /\ [][NextDensity]_vars

\* ------------------------------------------ the download plan on its own

RawSizes == {Null} \cup {Num(n) : n \in 0..MaxSize}

RawEntries == {Entry(url, size) : url \in 0..MaxUrlId, size \in RawSizes}

RawLists == UNION {[1..n -> RawEntries] : n \in 0..MaxUrls}

InitPlan ==
    /\ InitPage
    /\ fnIn \in RawLists
    /\ fnOut = << >>
    /\ fnDone = FALSE

ApplyPlan ==
    /\ ~fnDone
    /\ fnOut' = buildDownloadPlan(fnIn)
    /\ fnDone' = TRUE
    /\ UNCHANGED <<fnIn, pageVars>>

NextPlan == ApplyPlan

SpecPlan == InitPlan /\ [][NextPlan]_vars

\* ------------------------------------------- the file names on their own

\* A raw entry of body.downloadUrls that has a hash.
EntryWithHash(url, size, hash) == [url |-> url, size |-> size, hash |-> hash]

\* The characters the hashes are made of: one that the file name keeps
\* and one that it drops.
HashChars == {"a", "-"}

\* The hash "ab-cd!!12345678901234".
SampleHash ==
    << "a", "b", "-", "c", "d", "!", "!", "1", "2", "3", "4", "5", "6", "7",
       "8", "9", "0", "1", "2", "3", "4" >>

\* The values of u.hash: the empty string and the strings up to maxLen
\* characters, and the sample.
Hashes(maxLen) == UNION {[1..n -> HashChars] : n \in 0..maxLen} \cup {SampleHash}

\* The lists of entries: one entry without a hash, one entry with a hash,
\* which is the base, and a base followed by a smaller entry with a hash,
\* which is config1.
NameLists(maxLen) ==
    {<<Entry(1, Num(2))>>}
    \cup {<<EntryWithHash(1, Num(2), h)>> : h \in Hashes(maxLen)}
    \cup {<<Entry(1, Num(2)), EntryWithHash(2, Num(1), h)>> : h \in Hashes(maxLen)}

\* The lists of up to maxLen entries of one size, each without a hash or
\* with the hash "0": the first entry is the base and the others are
\* config1, config2, ...
NumberedLists(maxLen) ==
    UNION {[1..n -> {Entry(1, Num(1)), EntryWithHash(1, Num(1), <<"0">>)}] :
             n \in 1..maxLen}

InitName ==
    /\ InitPage
    /\ fnIn \in NameLists(MaxHashLen) \cup NumberedLists(MaxEntries)
    /\ fnOut = << >>
    /\ fnDone = FALSE

ApplyName ==
    /\ ~fnDone
    /\ fnOut' = buildDownloadPlan(fnIn)
    /\ fnDone' = TRUE
    /\ UNCHANGED <<fnIn, pageVars>>

NextName == ApplyName

SpecName == InitName /\ [][NextName]_vars

\* ------------------------------------------ the copy buttons on their own

\* A piece of a text: a line made from a template with the url and the
\* file name it holds, or the newline between two lines.
Line(template, url, filename) ==
    [template |-> template, url |-> url, filename |-> filename]

Text(str) == Line(str, 0, << >>)

Newline == Text("\n")

\* lines.join('\n')
RECURSIVE join(_)
join(lines) ==
    IF lines = << >> THEN << >>
    ELSE IF Len(lines) = 1 THEN lines
    ELSE <<Head(lines), Newline>> \o join(Tail(lines))

\* Mutant: a single link already counts as a split set.
isSplitSet_AnyLink(urls) == Len(allLinks(urls)) > 0

\* allLinks.length > 1
isSplitSet(urls) == Len(allLinks(urls)) > 1

\* allLinks.join('\n')
linkList(urls) ==
    join([k \in 1..Len(allLinks(urls)) |-> Line("url", allLinks(urls)[k], << >>)])

\* for (const item of plan) lines.push(...)
fetchLines(template, plan) ==
    [k \in 1..Len(plan) |-> Line(template, plan[k].url, plan[k].filename)]

\* The lines of pwshBtn.onclick.
pwshLines(plan, split) ==
    << Text("$ErrorActionPreference = \"Stop\""),
       Text("$outDir = Join-Path $PWD \"downloads\""),
       Text("New-Item -ItemType Directory -Force -Path $outDir | Out-Null") >>
    \o fetchLines("Invoke-WebRequest -Uri url -OutFile (Join-Path $outDir filename)", plan)
    \o << Text("Write-Host \"Done. Files saved to\" $outDir") >>
    \o (IF split
        THEN << Text(""),
                Text("# Install (requires adb in PATH and USB debugging enabled)"),
                Text("$apks = Get-ChildItem -Path $outDir -Filter \"*.apk\" | Sort-Object Length -Descending | Select-Object -ExpandProperty FullName"),
                Text("Write-Host \"Running: adb install-multiple <all apks>\""),
                Text("adb install-multiple @apks") >>
        ELSE << >>)

\* The lines of curlBtn.onclick.
curlLines(plan, split) ==
    << Text("mkdir -p downloads") >>
    \o fetchLines("curl -L url -o downloads/filename", plan)
    \o (IF split
        THEN << Text(""),
                Text("# Install (requires adb)"),
                Text("adb install-multiple downloads/*.apk") >>
        ELSE << >>)

\* What a copy button has put on the clipboard.
Copy(button, text) == [button |-> button, text |-> text]

\* The last text a button has copied, none when it has not been clicked.
lastCopy(button) ==
    LET at == {k \in 1..Len(fnOut) : fnOut[k].button = button}
    IN IF at = {} THEN << >>
       ELSE fnOut[CHOOSE k \in at : \A j \in at : j <= k].text

\* Mutant: the array of lines is shared by the clicks, so a second click
\* pushes its lines behind those of the first.
curlScript_SharedLines(urls) ==
    LET lines == join(curlLines(buildDownloadPlan(urls), isSplitSet(urls)))
    IN IF lastCopy("copyCurlCommands") = << >> THEN lines
       ELSE lastCopy("copyCurlCommands") \o <<Newline>> \o lines

\* The text curlBtn.onclick copies.
curlScript(urls) == join(curlLines(buildDownloadPlan(urls), isSplitSet(urls)))

\* The text pwshBtn.onclick copies.
pwshScript(urls) == join(pwshLines(buildDownloadPlan(urls), isSplitSet(urls)))

\* The lists of entries that are rendered: every entry has a size.
RenderedLists(maxLen) ==
    UNION {[1..n -> {Entry(url, Num(size)) : url \in 0..MaxUrlId, size \in 1..2}] :
             n \in 1..maxLen}

\* renderDownloadLinks has rendered the urls; nothing is copied yet.
InitCopy ==
    /\ InitPage
    /\ fnIn \in RenderedLists(MaxUrls)
    /\ fnOut = << >>
    /\ fnDone = FALSE

\* A copy button is rendered when there is at least one link; its click
\* puts the text on the clipboard.
click(button, text) ==
    /\ allLinks(fnIn) # << >>
    /\ Len(fnOut) < MaxCopies
    /\ fnOut' = Append(fnOut, Copy(button, text))
    /\ fnDone' = TRUE
    /\ UNCHANGED <<fnIn, pageVars>>

\* copyBtn.onclick
CopyLinksClick == click("copyDownloadLinks", linkList(fnIn))

\* pwshBtn.onclick
CopyPwshClick == click("copyPwshScript", pwshScript(fnIn))

\* curlBtn.onclick
CopyCurlClick == click("copyCurlCommands", curlScript(fnIn))

NextCopy ==
    \/ CopyLinksClick
    \/ CopyPwshClick
    \/ CopyCurlClick

SpecCopy == InitCopy /\ [][NextCopy]_vars

\* ---------------------------------------------------------- properties

\* The trial list of a density sequence: every density with
\* withoutSplits false and then true, density by density.
TrialList(cands) ==
    [k \in 1..(2 * Len(cands)) |->
        Profile(cands[(k + 1) \div 2], k % 2 = 0)]

\* A response with code "OK" and no artifact.
OkEmpty(resp) ==
    resp.transport = "2xx" /\ resp.code = "OK" /\ resp.urls = << >>

\* A response with code "OK" and at least one artifact.
OkWithArtifacts(resp) ==
    resp.transport = "2xx" /\ resp.code = "OK" /\ resp.urls # << >>

\* A response with a transport status that is not 2xx or a code that is
\* not "OK".
ErrorStatus(resp) ==
    resp.transport = "non2xx" \/ (resp.transport = "2xx" /\ resp.code # "OK")

InFlight(i) == {r \in net : r.inv = i}

\* The calls in flight and the call that returned last.
Calls == {Call(i, dl[i]) : i \in Invocations} \cup {returned}

\* What the call has rendered, while it is still in the results area.
Rendered(c) == downloadResults.by = c.inv /\ downloadResults.kind # "placeholder"

\* The answers before the n-th were all "OK" with no artifact.
EmptyBefore(rec, n) ==
    \A k \in 1..(n - 1) : OkEmpty(rec.results[k].resp)

\* C1: when the trials before profile p have answered "OK" with no
\* artifact and the trial of p answers "OK" with at least one artifact,
\* the resolution ends in success with the profile p, after the trials
\* before p and the trial of p, in the order of the trial list, and with
\* no trial after p.
C1_FirstNonEmptyProfileWins ==
    \A c \in Calls :
        LET rec == c.frame
            n == Len(rec.results)
        IN (n > 0 /\ OkWithArtifacts(rec.results[n].resp) /\ EmptyBefore(rec, n)) =>
              /\ rec.status = "success"
              /\ rec.calls = SubSeq(TrialList(rec.candidates), 1, n)
              /\ rec.lastMeta = TrialList(rec.candidates)[n]
              /\ rec.results[n].answers = rec.lastMeta
              /\ InFlight(c.inv) = {}
              /\ Rendered(c) =>
                    /\ downloadResults.kind = "links"
                    /\ downloadResults.meta = rec.lastMeta
                    /\ downloadResults.data = rec.results[n]

\* C1 witness: over the ladder 480, 320, 240, 160, 0 only (160, true)
\* has artifacts, and the resolution has ended in success with it after
\* eight trials.
C1_Witness ==
    /\ returned.frame.status = "success"
    /\ returned.frame.candidates = Ladder
    /\ returned.frame.lastMeta = Profile(160, TRUE)
    /\ Len(returned.frame.calls) = 8
    /\ downloadResults.kind = "links"
    /\ downloadResults.meta = Profile(160, TRUE)

\* C2: a trial that answers with an error status, the first or a later
\* one, ends the resolution in failure at once: it is the last trial
\* issued, whatever the trials before it answered.
C2_ErrorAbortsAtAnyTrial ==
    \A c \in Calls :
        \A k \in 1..Len(c.frame.results) :
            ErrorStatus(c.frame.results[k].resp) =>
                /\ k = Len(c.frame.results)
                /\ c.frame.status = "failure"
                /\ Len(c.frame.calls) = k
                /\ InFlight(c.inv) = {}
                /\ Rendered(c) => downloadResults.kind = "error"

\* C2 witness: a resolution has failed at its third trial on a status
\* that is not 2xx, after two empty answers.
C2_Witness ==
    /\ returned.frame.status = "failure"
    /\ Len(returned.frame.results) = 3
    /\ returned.frame.results[3].resp.transport = "non2xx"
    /\ EmptyBefore(returned.frame, 3)
    /\ downloadResults.kind = "error"

\* C3: when every profile of the trial list has answered "OK" with no
\* artifact, the resolution ends as exhausted, neither success nor
\* failure, and the last attempt it shows is the answer to the last
\* profile tried: the last density with withoutSplits true.
C3_ExhaustionCarriesLastAttempt ==
    \A c \in Calls :
        LET rec == c.frame
            n == Len(rec.results)
            full == n > 0 /\ n = 2 * Len(rec.candidates) /\ EmptyBefore(rec, n + 1)
        IN /\ full =>
                /\ rec.status = "exhausted"
                /\ rec.calls = TrialList(rec.candidates)
                /\ rec.lastData = rec.results[n]
                /\ rec.lastData.answers =
                      Profile(rec.candidates[Len(rec.candidates)], TRUE)
                /\ InFlight(c.inv) = {}
                /\ Rendered(c) =>
                      /\ downloadResults.kind = "exhausted"
                      /\ downloadResults.data = rec.results[n]
           /\ rec.status = "exhausted" => full

\* C3 witness: a resolution that tried six densities is exhausted and
\* shows the answer to (0, true).
C3_Witness ==
    /\ returned.frame.status = "exhausted"
    /\ Len(returned.frame.calls) = 12
    /\ downloadResults.kind = "exhausted"
    /\ downloadResults.data.answers = Profile(0, TRUE)

\* C4: the trials of a resolution are sequential: at most one of its
\* requests is in flight, it is the trial issued last, and every trial
\* before it has been answered.
C4_TrialsSequential ==
    /\ \A i \in Invocations :
          /\ Cardinality(InFlight(i)) <= 1
          /\ Len(dl[i].calls) = Len(dl[i].results) + Cardinality(InFlight(i))
          /\ \A r \in InFlight(i) :
                /\ dl[i].status = "waiting"
                /\ r.profile = dl[i].calls[Len(dl[i].calls)]
    /\ \A c \in Calls :
          /\ Len(c.frame.results) <= Len(c.frame.calls)
          /\ \A k \in 1..Len(c.frame.results) :
                c.frame.results[k].answers = c.frame.calls[k]
    /\ Len(returned.frame.results) = Len(returned.frame.calls)

\* C4 witness: the second trial is in flight and the first is answered.
C4_Witness ==
    \E i \in Invocations :
        /\ Len(dl[i].calls) = 2
        /\ Len(dl[i].results) = 1
        /\ Cardinality(InFlight(i)) = 1

\* C5: once a resolution in flight is cancelled (the modal is closed or
\* the search is reset), it issues no further trial.
C5_CancelSuppressesTrials ==
    [][\A i \in Invocations :
          dl[i].cancelled => dl'[i].calls = dl[i].calls]_vars

\* C6: once a resolution in flight is cancelled, it never writes to the
\* download results again.
C6_CancelledNeverRenders ==
    [][\A i \in Invocations :
          dl[i].cancelled =>
              (downloadResults' = downloadResults \/ downloadResults'.by # i)]_vars

\* The positions of the entries of the input that have a url.
WithUrl(urls) == {k \in 1..Len(urls) : urls[k].url # 0}

\* The size of an entry, an absent one counted as 0.
SizeOf(u) == IF u.size = Null THEN 0 ELSE u.size[1]

\* The position of the largest entry with a url, the earliest of them.
Largest(urls) ==
    CHOOSE b \in WithUrl(urls) :
        \A k \in WithUrl(urls) :
            \/ SizeOf(urls[k]) < SizeOf(urls[b])
            \/ (SizeOf(urls[k]) = SizeOf(urls[b]) /\ b <= k)

Bases(plan) == {k \in 1..Len(plan) : plan[k].role = "base"}

Configs(plan) == {k \in 1..Len(plan) : plan[k].role = "config"}

\* C7: when at least one entry has a url, exactly one descriptor has the
\* role "base", and it is the entry of maximum size, an absent size
\* counted as 0 and the earliest entry winning a tie.
C7_ExactlyOneBaseTheLargest ==
    (fnDone /\ WithUrl(fnIn) # {}) =>
        /\ Cardinality(Bases(fnOut)) = 1
        /\ \A k \in Bases(fnOut) : fnOut[k].idx = Largest(fnIn)

\* C7 witness: two entries of the maximum size, behind a smaller one and
\* one without a size; the first of the two is the base.
C7_Witness ==
    /\ fnDone
    /\ Len(fnIn) = 3
    /\ WithUrl(fnIn) = {1, 2, 3}
    /\ fnIn[1].size = Null
    /\ fnIn[2].size = Num(MaxSize)
    /\ fnIn[3].size = Num(MaxSize)
    /\ fnOut[2].role = "base"
    /\ Bases(fnOut) = {2}

\* C8: the config descriptors are numbered 1..N without a gap, in the
\* order of the input and whatever their sizes; when all sizes are equal
\* the first entry is the base and the others are config1, config2, ...
C8_ConfigsNumberedInInputOrder ==
    fnDone =>
        /\ \A k \in Configs(fnOut) :
              fnOut[k].filename =
                  <<"config", Cardinality({j \in Configs(fnOut) : j <= k})>>
        /\ \A k \in Bases(fnOut) : fnOut[k].filename = <<"base">>
        /\ \A j, k \in 1..Len(fnOut) : j < k => fnOut[j].idx < fnOut[k].idx
        /\ (\A j, k \in WithUrl(fnIn) : SizeOf(fnIn[j]) = SizeOf(fnIn[k])) =>
              \A k \in 1..Len(fnOut) :
                  /\ fnOut[k].role = (IF k = 1 THEN "base" ELSE "config")
                  /\ k > 1 => fnOut[k].filename = <<"config", k - 1>>

\* C8 witness: three entries with a url, the base in the middle, and the
\* configs around it are config1 and config2 though the second is larger.
C8_Witness ==
    /\ fnDone
    /\ Len(fnOut) = 3
    /\ fnOut[2].role = "base"
    /\ fnOut[1].filename = <<"config", 1>>
    /\ fnOut[3].filename = <<"config", 2>>
    /\ SizeOf(fnIn[fnOut[1].idx]) < SizeOf(fnIn[fnOut[3].idx])

\* The ladder without the density d.
RECURSIVE Without(_, _)
Without(s, d) ==
    IF s = << >> THEN << >>
    ELSE IF Head(s) = d THEN Without(Tail(s), d)
    ELSE <<Head(s)>> \o Without(Tail(s), d)

\* C9: the density sequence holds no density twice, and an explicit
\* finite density is the first one tried, followed by the ladder
\* 480, 320, 240, 160, 0 without it.
C9_NoDuplicateExplicitFirst ==
    fnDone =>
        /\ \A j, k \in 1..Len(fnOut) : j # k => fnOut[j] # fnOut[k]
        /\ fnIn.options.fin =>
              fnOut = <<fnIn.options.val>> \o Without(Ladder, fnIn.options.val)

\* C9 witness: the explicit density 240 gives 240, 480, 320, 160, 0.
C9_Witness ==
    /\ fnDone
    /\ fnIn.options = [fin |-> TRUE, val |-> 240]
    /\ fnOut = <<240, 480, 320, 160, 0>>

\* C10: the density 0 is in the sequence exactly once: as the last
\* density, unless 0 is the explicit density, and then as the first and
\* not again at the end.
C10_ZeroOnceAndLast ==
    fnDone =>
        /\ Cardinality({k \in 1..Len(fnOut) : fnOut[k] = 0}) = 1
        /\ IF fnIn.options.fin /\ fnIn.options.val = 0
           THEN fnOut[1] = 0 /\ fnOut[Len(fnOut)] # 0
           ELSE fnOut[Len(fnOut)] = 0

\* C10 witness: the explicit density 0 gives 0, 480, 320, 240, 160.
C10_Witness ==
    /\ fnDone
    /\ fnIn.options = [fin |-> TRUE, val |-> 0]
    /\ fnOut = <<0, 480, 320, 240, 160>>


\* C11: the trials of a resolution are issued density by density: the
\* k-th trial has the density at position (k + 1) \div 2 of the density
\* sequence, with withoutSplits false when k is odd and true when k is
\* even, so both trials of a density come before any trial of the next.
C11_DensityMajorOrder ==
    \A c \in Calls :
        LET rec == c.frame
        IN /\ Len(rec.calls) <= 2 * Len(rec.candidates)
           /\ \A k \in 1..Len(rec.calls) :
                 /\ rec.calls[k].screenDensity = rec.candidates[(k + 1) \div 2]
                 /\ rec.calls[k].withoutSplits = (k % 2 = 0)
           /\ \A j, k \in 1..Len(rec.calls) :
                 (j < k /\ rec.calls[j].screenDensity = rec.calls[k].screenDensity) =>
                     /\ k = j + 1
                     /\ ~rec.calls[j].withoutSplits
                     /\ rec.calls[k].withoutSplits

\* C11 witness: a resolution in flight has issued (240, false),
\* (240, true) and then (480, false).
C11_Witness ==
    \E i \in Invocations :
        dl[i].calls = <<Profile(240, FALSE), Profile(240, TRUE), Profile(480, FALSE)>>

\* The screen densities a profile may carry.
Buckets == {0, 160, 240, 320, 480, 640}

\* C12: every density of the sequence the trials are issued from, and so
\* the density of every trial, is one of 0, 160, 240, 320, 480 and 640,
\* for every explicit density that Number.isFinite accepts.
C12_DensitiesInBuckets ==
    fnDone => \A k \in 1..Len(fnOut) : fnOut[k] \in Buckets

\* C13: without an explicit density the first density tried is the hint
\* of the device, and for every device pixel ratio the hint is one of
\* 240, 320, 480 and 640: never 160 or 0, and 240 for every ratio below 2.
C13_HintNeverBelow240 ==
    (fnDone /\ ~fnIn.options.fin) =>
        /\ fnOut[1] \in {240, 320, 480, 640}
        /\ fnOut[1] >= 240
        /\ fnIn.dpr2 \in 1..3 => fnOut[1] = 240

\* C13 witness: at the device pixel ratio 1, the bucket of which is 160,
\* the first density tried is 240.
C13_Witness ==
    /\ fnDone
    /\ ~fnIn.options.fin
    /\ fnIn.dpr2 = 2
    /\ fnOut[1] = 240

\* The densities the select of the rendered links offers.
Offered == {densityOptions[k] : k \in 1..Len(densityOptions)}

\* The call that the step starts in slot i, if it starts one.
Starts(i) == dl[i].status # "waiting" /\ dl'[i].status = "waiting"

\* C14: a click on Retry, which is a step that starts a resolution while
\* the links of an earlier one are shown, starts a resolution of the same
\* kind with the density of the select pinned first: its density
\* sequence is that density followed by the ladder 480, 320, 240, 160, 0
\* without it, and its first trial, the only one issued so far and now
\* in flight, is (that density, withoutSplits false).
C14_RetryPinsChosenDensity ==
    [][(/\ downloadModal = "show"
        /\ downloadResults.kind = "links"
        /\ downloadResults'.kind = "placeholder") =>
          \E i \in Invocations : \E d \in Offered :
              /\ Starts(i)
              /\ dl'[i].requested = d
              /\ dl'[i].candidates = <<d>> \o Without(Ladder, d)
              /\ dl'[i].calls = <<Profile(d, FALSE)>>
              /\ dl'[i].results = << >>
              /\ \E r \in net' \ net : r.inv = i /\ r.profile = Profile(d, FALSE)
              /\ downloadResults' = placeholder(i)]_vars

\* C14 witness: after a retry with the density 160 the resolution has
\* gone on from (160, false) and (160, true) to (480, false).
C14_Witness ==
    \E i \in Invocations :
        /\ dl[i].requested = 160
        /\ dl[i].calls = <<Profile(160, FALSE), Profile(160, TRUE), Profile(480, FALSE)>>

\* What the results area shows for the terminal outcome of a call: the
\* links of its last answer with the profile used, the "no download URLs"
\* block with its last answer, or the error with the message thrown.
Outcome(c) ==
    LET rec == c.frame
        last == rec.results[Len(rec.results)]
    IN CASE rec.status = "success" ->
              /\ downloadResults.kind = "links"
              /\ downloadResults.data = last
              /\ downloadResults.meta = last.answers
         [] rec.status = "exhausted" ->
              /\ downloadResults.kind = "exhausted"
              /\ downloadResults.data = last
         [] rec.status = "failure" ->
              /\ downloadResults.kind = "error"
              /\ downloadResults.message = errorMessage(last.resp)
         [] OTHER -> FALSE

\* C15: once a resolution has reached a terminal outcome, the results
\* area shows that outcome, written by that resolution, for as long as
\* the modal is not closed and no other resolution starts: it shows
\* neither the placeholder nor what an earlier resolution has rendered.
C15_TerminalOutcomeShown ==
    (returned # NoCall /\ downloadResults # Empty) =>
        /\ returned.frame.status \in {"success", "exhausted", "failure"}
        /\ downloadResults.kind # "placeholder"
        /\ downloadResults.by = returned.inv
        /\ Outcome(returned)

\* C15 witness: a resolution started by Retry, over the links of the
\* resolution before it, has ended as exhausted and the results area
\* shows the "no download URLs" block.
C15_Witness ==
    /\ returned.frame.status = "exhausted"
    /\ returned.frame.requested \in {0, 160}
    /\ downloadResults.kind = "exhausted"
    /\ downloadModal = "show"

\* The text of a failure reason behind its "HTTP <status>: " prefix.
ReasonText(message) == message[Len(message)]

\* C16: the reason of a failure on a status that is not 2xx, or on a 2xx
\* answer with a code that is not "OK", is the message of the response
\* body when the body has one, and a generic text when it has none:
\* "Unknown error" behind the HTTP status in the first case and "Server
\* returned error" in the second.
C16_ReasonFromBodyOrGeneric ==
    (returned.frame.status = "failure" /\ downloadResults.by = returned.inv) =>
        LET resp == returned.frame.results[Len(returned.frame.results)].resp
            reason == downloadResults.message
        IN /\ downloadResults.kind = "error"
           /\ ErrorStatus(resp) =>
                 /\ resp.message # "" => ReasonText(reason) = resp.message
                 /\ resp.message = "" =>
                       ReasonText(reason) =
                           (IF resp.transport = "non2xx"
                            THEN "Unknown error" ELSE "Server returned error")
                 /\ (Head(reason) = "HTTP") = (resp.transport = "non2xx")

\* C16 witness: a failure on a status that is not 2xx whose body has the
\* message "m" is shown with that message.
C16_Witness ==
    /\ returned.frame.status = "failure"
    /\ downloadResults.kind = "error"
    /\ downloadResults.message = <<"HTTP", "m">>
    /\ returned.frame.results[Len(returned.frame.results)].resp.transport = "non2xx"

\* C17: the descriptors are the entries of the input that have a url, all
\* of them and no other, in the order of the input: the k-th descriptor
\* is the k-th entry with a url, with the url and the size of that entry.
C17_ExactlyTheEntriesWithUrl ==
    fnDone =>
        /\ Len(fnOut) = Cardinality(WithUrl(fnIn))
        /\ \A k \in 1..Len(fnOut) :
              /\ fnOut[k].idx \in WithUrl(fnIn)
              /\ Cardinality({j \in WithUrl(fnIn) : j <= fnOut[k].idx}) = k
              /\ fnOut[k].url = fnIn[fnOut[k].idx].url
              /\ fnOut[k].url # 0
              /\ fnOut[k].size = fnIn[fnOut[k].idx].size

\* C17 witness: of three entries the second has no url; the descriptors
\* are the first and the third, in that order.
C17_Witness ==
    /\ fnDone
    /\ Len(fnIn) = 3
    /\ WithUrl(fnIn) = {1, 3}
    /\ Len(fnOut) = 2
    /\ fnOut[1].idx = 1
    /\ fnOut[2].idx = 3

\* The positions of the characters of a hash that are letters or digits.
AlnumAt(hash) == {p \in 1..Len(hash) : hash[p] \in Alnum}

\* The j-th of these positions.
NthAlnum(hash, j) ==
    CHOOSE p \in AlnumAt(hash) : Cardinality({q \in AlnumAt(hash) : q <= p}) = j

\* The hash segment of a file name: what follows "base" or "config", n.
Segment(item) ==
    SubSeq(item.filename, IF item.role = "base" THEN 2 ELSE 3, Len(item.filename))

\* C18: the hash segment of a file name is one underscore followed by
\* the letters and digits of the hash, in their order, cut to the first
\* 12 of them; when the hash is absent, empty or without a letter or
\* digit, the file name has no hash segment and no underscore for it.
C18_HashSegment ==
    fnDone =>
        \A k \in 1..Len(fnOut) :
            LET u == fnIn[fnOut[k].idx]
                hash == IF "hash" \in DOMAIN u THEN u.hash ELSE << >>
                n == Cardinality(AlnumAt(hash))
                seg == Segment(fnOut[k])
            IN /\ n = 0 => seg = << >>
               /\ n > 0 =>
                     /\ Len(seg) = 1 + (IF n < 12 THEN n ELSE 12)
                     /\ seg[1] = "_"
                     /\ \A j \in 1..(Len(seg) - 1) :
                           seg[j + 1] = hash[NthAlnum(hash, j)]

\* C18 witness: the hash "ab-cd!!12345678901234" of a config entry gives
\* the segment _abcd12345678.
C18_Witness ==
    /\ fnDone
    /\ Len(fnOut) = 2
    /\ fnIn[2].hash = SampleHash
    /\ fnOut[2].filename =
          << "config", 1, "_", "a", "b", "c", "d",
             "1", "2", "3", "4", "5", "6", "7", "8" >>

\* The copies of the two shell-script buttons.
Scripts == {k \in 1..Len(fnOut) : fnOut[k].button \in {"copyPwshScript", "copyCurlCommands"}}

\* A line that fetches a url to a file.
IsFetch(line) == line.url # 0

\* The fetch command of the shell a button writes for.
FetchTemplate(button) ==
    IF button = "copyPwshScript"
    THEN "Invoke-WebRequest -Uri url -OutFile (Join-Path $outDir filename)"
    ELSE "curl -L url -o downloads/filename"

\* Whether a text has the batch-install section.
HasInstall(text) ==
    \E k \in 1..Len(text) :
        text[k].template \in
            {"adb install-multiple @apks", "adb install-multiple downloads/*.apk"}

\* C19: a script copied by the PowerShell or the curl button has one
\* fetch-to-file command per descriptor, in the order of the descriptors,
\* each with the url and the file name of its descriptor, and it has the
\* adb install-multiple section exactly when there is more than one
\* descriptor.
C19_OneFetchPerDescriptor ==
    \A w \in Scripts :
        LET plan == buildDownloadPlan(fnIn)
            fetch == SelectSeq(fnOut[w].text, IsFetch)
        IN /\ Len(fetch) = Len(plan)
           /\ \A k \in 1..Len(fetch) :
                 /\ fetch[k].template = FetchTemplate(fnOut[w].button)
                 /\ fetch[k].url = plan[k].url
                 /\ fetch[k].filename = plan[k].filename
           /\ HasInstall(fnOut[w].text) <=> Len(plan) > 1

\* C19 witness: of three entries two have a url; the curl script has
\* their two commands, to the files base and config1 in the order of the
\* descriptors, and the install section.
C19_Witness ==
    /\ Len(fnIn) = 3
    /\ Len(buildDownloadPlan(fnIn)) = 2
    /\ \E w \in Scripts :
          /\ fnOut[w].button = "copyCurlCommands"
          /\ Len(SelectSeq(fnOut[w].text, IsFetch)) = 2
          /\ SelectSeq(fnOut[w].text, IsFetch)[1].filename = <<"config", 1>>
          /\ SelectSeq(fnOut[w].text, IsFetch)[2].filename = <<"base">>
          /\ HasInstall(fnOut[w].text)

\* The k-th entry of the input that has a url.
NthWithUrl(urls, k) ==
    CHOOSE p \in WithUrl(urls) : Cardinality({q \in WithUrl(urls) : q <= p}) = k

ExhaustedCalls(requested) ==
    IF \E k \in 1..Len(Ladder) : Ladder[k] = requested THEN 10 ELSE 12

\* C21: when every request is answered in the end, every resolution
\* ends, in one of success, exhausted and failure, and it has issued at
\* most 12 requests; an exhausted one has issued two for each of its
\* densities: 10 when the first density is one of 480, 320, 240, 160, 0
\* and 12 when it is not.
C21_EndsWithinTwelveCalls ==
    /\ [](\A c \in Calls :
            /\ Len(c.frame.calls) <= 12
            /\ c.frame.status \in {"idle", "waiting", "success", "exhausted", "failure"}
            /\ c.frame.status = "exhausted" =>
                  /\ Len(c.frame.calls) = 2 * Len(c.frame.candidates)
                  /\ Len(c.frame.calls) = ExhaustedCalls(c.frame.requested))
    /\ [](returned # NoCall =>
            returned.frame.status \in {"success", "exhausted", "failure"})
    /\ (\E i \in Invocations : dl[i].status = "waiting")
          ~> (\A i \in Invocations : dl[i].status # "waiting")

\* C21 witness: a resolution that started at the density 240 is
\* exhausted after 10 requests.
C21_Witness ==
    /\ returned.frame.status = "exhausted"
    /\ returned.frame.requested = 240
    /\ Len(returned.frame.calls) = 10

\* C22: when a resolution has ended in success, the descriptors it has
\* rendered are not empty and exactly one of them is the base; an answer
\* whose entries all lack a url does not end a resolution in success.
C22_SuccessHasOneBase ==
    (returned.frame.status = "success" /\ Rendered(returned)) =>
        /\ downloadResults.plan # << >>
        /\ Cardinality(Bases(downloadResults.plan)) = 1
        /\ WithUrl(downloadResults.data.resp.urls) # {}

\* C23: while the results area shows that a resolution is exhausted, the
\* retry with a density of the select can be triggered, as it can while
\* it shows the links of a success.
C23_RetryAfterExhaustion ==
    (downloadModal = "show" /\ downloadResults.kind = "exhausted") =>
        ENABLED RetryClick

\* C28: the file names of the descriptors of one set are pairwise
\* distinct as strings, whatever the hashes of the entries are (equal,
\* empty or absent) and however many configs there are.
C28_FileNamesDistinct ==
    fnDone =>
        \A j, k \in 1..Len(fnOut) :
            j # k => filenameText(fnOut[j]) # filenameText(fnOut[k])

\* C28 witness: of eleven entries the second, config1, has the hash "0"
\* and the eleventh, config10, has none.
C28_Witness ==
    /\ fnDone
    /\ Len(fnOut) = 11
    /\ fnOut[2].filename = <<"config", 1, "_", "0">>
    /\ fnOut[11].filename = <<"config", 10>>
    /\ fnOut[3].hash = fnOut[4].hash

\* C24: when downloadApp calls overlap, what the modal shows once all of
\* them have returned is the outcome of the call started last: a call
\* started earlier that returns later does not overwrite it.
C24_LatestOutcomeShown ==
    (/\ latest.kept
     /\ downloadModal = "show"
     /\ \A i \in Invocations : dl[i].status # "waiting"
     /\ downloadResults.kind \in {"links", "exhausted", "error"})
        => downloadResults.by = latest.slot

\* The searchApps calls that await a fetch.
Searching == {i \in Searches : searches[i].status # "idle"}

\* Call i runs a continuation in this step.
Continues(i) ==
    /\ searches[i].status # "idle"
    /\ \/ searches'[i].status # searches[i].status
       \/ searches'[i].left # searches[i].left

\* C25: while a searchApps call for the query of the state has a request
\* of a page outstanding, state.isLoading is true, so that the scroll
\* listener starts no second request; this also when the same query is
\* searched again while the earlier search of it is in flight.
C25_LoadingWhileRequesting ==
    \A i \in Searching :
        (/\ searches[i].status = "search"
         /\ ~searches[i].aborted
         /\ searches[i].query = state.query) => state.isLoading

\* C26: the pages of the current query are taken in the order 0, 1, 2,
\* each once and none skipped, and a call that a reset has overtaken
\* changes neither state.page nor state.hasMorePages.
C26_PagesInOrder ==
    /\ [](\A k \in 1..Len(pagesTaken) : pagesTaken[k] = k - 1)
    /\ [][\A i \in Searches :
            (searches[i].superseded /\ Continues(i))
                => /\ state'.page = state.page
                   /\ state'.hasMorePages = state.hasMorePages]_vars

\* C27: once a search of another query or a clear has started, no card
\* of a call for the earlier query is appended, and the rejection of an
\* aborted fetch shows no error message.
C27_NoStaleCardNoAbortError ==
    [][/\ Len(searchResults'.cards) > Len(searchResults.cards)
            => searchResults'.cards[Len(searchResults'.cards)] = state.query
       /\ \A i \in Searches :
            (searches[i].aborted /\ Continues(i))
                => (searchResults'.kind = "error" => searchResults.kind = "error")]_vars

\* A search of another query has started while the details of an app of
\* the earlier query were being fetched: that fetch is aborted and its
\* continuation is about to run.
C27_Witness ==
    \E i \in Searching :
        /\ searches[i].status = "detail"
        /\ searches[i].aborted
        /\ searches[i].query # state.query
        /\ searchResults.kind = "searching"

\* C29: the pagination of the comments by scrolling has one page request
\* in flight at most, and when no request is in flight and not all
\* comments are loaded, scrolling loads the next page: canLoad is 'true'
\* again after every request, whatever its answer.
C29_OneRequestAndCanLoadRestored ==
    /\ Cardinality({k \in 1..Len(commentRequests) : commentRequests[k].byScroll}) <= 1
    /\ (/\ commentRequests = << >>
        /\ commentsModal.packageName # ""
        /\ commentsModal.allCommentsLoaded = "false")
           => commentsModal.canLoad = "true"

====
